---- MODULE Spec2Model ----
(***************************************************************************)
(* rspong (src/src/main.rs): the shared GameState behind a tokio RwLock,   *)
(* the physics step update_ball_position, the wake-driven game_loop, the   *)
(* render task draining the bounded mpsc channel, and the request handlers *)
(* keypress, click and sse_handler.                                        *)
(*                                                                         *)
(* Every await point of the source is a step boundary.  A task that holds  *)
(* the write guard of state.game across an await (a renderer.send) is      *)
(* recorded in `lock`; guards that are dropped before the next await       *)
(* (every read guard, and the write guard of line 273) are taken and       *)
(* released inside one step, enabled only while no writer holds the lock.  *)
(***************************************************************************)
EXTENDS Integers, Sequences, FiniteSets, TLC

VARIABLES
    game,        \* state.game: the GameState behind the RwLock
    lock,        \* who holds the write guard: "free", "loop" or "handler"
    pending,     \* Renderables the current writer still has to send
    renderer,    \* the mpsc channel render_tx -> render_rx
    render_pc,   \* render task: "recv" or the Renderable it is rendering
    loop_pc,     \* position of game_loop
    wake_up,     \* permits stored in the Notify (0 or 1)
    receivers,   \* update_tx.receiver_count()
    sse_pc,      \* sse_handlers that subscribed and have not yet sent
    ticks,       \* physics steps executed so far
    requests,    \* keypress and click requests handled so far
    start_kept,  \* history: a start action not yet followed by a tick
    after_reset, \* history: this wake cycle reset a lost match whose
                 \* is_running was set, and no start action has come since
    capacity     \* the capacity the render channel was created with
vars == <<game, lock, pending, renderer, render_pc, loop_pc, wake_up,
          receivers, sse_pc, ticks, requests, start_kept, after_reset,
          capacity>>

----------------------------------------------------------------------------
(* Bounds of the model. *)

QueueCap == 2        \* capacity of the render channel in the model
MaxReceivers == 2    \* concurrently open event streams
MaxTicks == 2        \* physics steps per behaviour
MaxRequests == 3     \* keypress/click requests per behaviour

----------------------------------------------------------------------------
(* Integer widths. *)

U16(n) == n % 65536

Max(a, b) == IF a >= b THEN a ELSE b
Min(a, b) == IF a <= b THEN a ELSE b

(* `v * -1` on an i16: wraps at i16::MIN *)
NegI16_forgotten(v) == v

NegI16(v) == IF v = -32768 THEN -32768 ELSE 0 - v

(* `(f * 1000.) as u16` with f given in ten-thousandths: the cast truncates *)
(* and saturates.                                                           *)
ToU16(tenthousandths) == Max(0, Min(65535, tenthousandths \div 10))

----------------------------------------------------------------------------
(* Data: Bat, Ball, GameState and their defaults. *)

default_ball == [position |-> <<230, 420>>, velocity |-> <<15, 5>>]

default_left ==
    [up_key |-> "w", down_key |-> "s", position |-> 600, score |-> 0, height |-> 200]

default_right ==
    [up_key |-> "o", down_key |-> "l", position |-> 600, score |-> 0, height |-> 200]

GameState_default ==
    [left |-> default_left, right |-> default_right, ball |-> default_ball,
     is_running |-> FALSE, is_lost |-> FALSE]

score_up_keeps_height(b) ==
    [b EXCEPT !.score = U16(b.score + 1)]

score_up(b) ==
    [b EXCEPT !.score = U16(b.score + 1),
              !.height = Max(10, b.height - (b.height \div 10))]

reset_keeps_running(g) ==
    [g EXCEPT !.left = default_left, !.right = default_right,
              !.ball = default_ball, !.is_lost = FALSE]

reset_keeps_bats(g) ==
    [GameState_default EXCEPT !.left = g.left, !.right = g.right]

reset(g) ==
    [g EXCEPT !.left = default_left, !.right = default_right,
              !.ball = default_ball, !.is_running = FALSE, !.is_lost = FALSE]

render_all == <<"BatLeft", "BatRight", "Scoreboard", "Ball">>

----------------------------------------------------------------------------
(* move_bat *)

offset == 50

move_bat_unclamped(b, off, direction) ==
    IF direction = "Up"
    THEN [b EXCEPT !.position = U16(b.position - off)]
    ELSE [b EXCEPT !.position = U16(b.position + off)]

move_bat(b, off, direction) ==
    IF direction = "Up"
    THEN [b EXCEPT !.position = IF off < b.position THEN b.position - off ELSE 0]
    ELSE [b EXCEPT !.position = Min(U16(1000 - b.height), U16(b.position + off))]

----------------------------------------------------------------------------
(* update_ball_position: the physics step, as a function of the GameState. *)
(* The result carries the new GameState and the Renderables in send order. *)

in_span_closed_top(y, b) ==
    y >= b.position /\ y < U16(b.position + b.height)

(* lines 389-390 and 402-403: strictly inside the bat *)
in_span(y, b) ==
    y > b.position /\ y < U16(b.position + b.height)

miss_signals_once == <<"BatLeft", "BatRight", "Scoreboard">>

(* lines 398-399 and 411-412: the signals of a miss *)
miss_signals == render_all

update_ball_position(g) ==
    LET moved == << U16(g.ball.velocity[1] + g.ball.position[1]),
                    U16(g.ball.velocity[2] + g.ball.position[2]) >>
        g1 == [g EXCEPT !.ball.position = moved]
        bounce_x(gg, wall) ==
            [gg EXCEPT !.ball.position = <<wall, gg.ball.position[2]>>,
                       !.ball.velocity = <<NegI16(gg.ball.velocity[1]),
                                           gg.ball.velocity[2]>>]
        g2 == IF moved[1] <= 10
              THEN IF in_span(moved[2], g1.left)
                   THEN [bounce_x(g1, 10) EXCEPT !.left = score_up(@)]
                   ELSE [g1 EXCEPT !.is_lost = TRUE]
              ELSE IF moved[1] >= 990
              THEN IF in_span(moved[2], g1.right)
                   THEN [bounce_x(g1, 990) EXCEPT !.right = score_up(@)]
                   ELSE [g1 EXCEPT !.is_lost = TRUE]
              ELSE g1
        s2 == IF moved[1] <= 10
              THEN IF in_span(moved[2], g1.left)
                   THEN <<"BatLeft", "Scoreboard">> ELSE miss_signals
              ELSE IF moved[1] >= 990
              THEN IF in_span(moved[2], g1.right)
                   THEN <<"BatRight", "Scoreboard">> ELSE miss_signals
              ELSE << >>
        y2 == g2.ball.position[2]
        bounce_y(gg, wall) ==
            [gg EXCEPT !.ball.position = <<gg.ball.position[1], wall>>,
                       !.ball.velocity = <<gg.ball.velocity[1],
                                           NegI16(gg.ball.velocity[2])>>]
        g3 == IF y2 <= 0 THEN bounce_y(g2, 0)
              ELSE IF y2 >= 990 THEN bounce_y(g2, 990)
              ELSE g2
        s3 == IF y2 <= 0 \/ y2 >= 990 THEN <<"Scoreboard">> ELSE << >>
    IN  [game |-> g3, out |-> s2 \o s3 \o <<"Ball">>]

----------------------------------------------------------------------------
(* keypress and click as functions of the GameState and the form input.   *)
(* notify is whether wake_up.notify_one() is called.                       *)

(* lines 292-295: the pause key *)
toggle_pause_wakes_on_start(g) ==
    [game |-> [g EXCEPT !.is_running = ~g.is_running],
     notify |-> ~g.is_running, out |-> <<"Scoreboard">>]

toggle_pause(g) ==
    [game |-> [g EXCEPT !.is_running = ~g.is_running],
     notify |-> TRUE, out |-> <<"Scoreboard">>]

(* line 296: the bat keys are read only while the match runs *)
keys_always_enabled(g) == TRUE

keys_enabled(g) == g.is_running

keypress(g, last_key) ==
    IF last_key = "p"
    THEN toggle_pause(g)
    ELSE IF keys_enabled(g) /\ last_key = g.left.up_key
    THEN [game |-> [g EXCEPT !.left = move_bat(g.left, offset, "Up")],
          notify |-> FALSE, out |-> <<"BatLeft">>]
    ELSE IF keys_enabled(g) /\ last_key = g.left.down_key
    THEN [game |-> [g EXCEPT !.left = move_bat(g.left, offset, "Down")],
          notify |-> FALSE, out |-> <<"BatLeft">>]
    ELSE IF keys_enabled(g) /\ last_key = g.right.up_key
    THEN [game |-> [g EXCEPT !.right = move_bat(g.right, offset, "Up")],
          notify |-> FALSE, out |-> <<"BatRight">>]
    ELSE IF keys_enabled(g) /\ last_key = g.right.down_key
    THEN [game |-> [g EXCEPT !.right = move_bat(g.right, offset, "Down")],
          notify |-> FALSE, out |-> <<"BatRight">>]
    ELSE [game |-> g, notify |-> FALSE, out |-> << >>]

(* lines 327-333: the bat moves by half its height towards the click *)
click_bat_floor0(bat, y) ==
    LET step == bat.height \div 2
    IN  IF y < U16(bat.position + (bat.height \div 2))
        THEN [bat EXCEPT !.position =
                  IF step < bat.position THEN bat.position - step ELSE 0]
        ELSE [bat EXCEPT !.position = Min(U16(bat.position + step), 1000)]

click_bat_unclamped(bat, y) ==
    LET step == bat.height \div 2
    IN  IF y < U16(bat.position + (bat.height \div 2))
        THEN [bat EXCEPT !.position =
                  IF step < bat.position THEN bat.position - step ELSE 1]
        ELSE [bat EXCEPT !.position = U16(bat.position + step)]

click_bat(bat, y) ==
    LET step == bat.height \div 2
    IN  IF y < U16(bat.position + (bat.height \div 2))
        THEN [bat EXCEPT !.position =
                  IF step < bat.position THEN bat.position - step ELSE 1]
        ELSE [bat EXCEPT !.position = Min(U16(bat.position + step), 1000)]

(* x in tenths, y in ten-thousandths of the court *)
click(g, x, y) ==
    IF ~g.is_running
    THEN [game |-> [g EXCEPT !.is_running = TRUE],
          notify |-> TRUE, out |-> <<"Scoreboard">>]
    ELSE IF x < 5
    THEN [game |-> [g EXCEPT !.left = click_bat(g.left, ToU16(y))],
          notify |-> FALSE, out |-> <<"BatLeft">>]
    ELSE [game |-> [g EXCEPT !.right = click_bat(g.right, ToU16(y))],
          notify |-> FALSE, out |-> <<"BatRight">>]

----------------------------------------------------------------------------
(* Notify (wake_up).  notify_one wakes the task suspended in notified(),   *)
(* and stores a permit when no task is suspended there; the Notify holds   *)
(* at most one permit.  notified() returns at once when a permit is stored *)
(* and consumes it.                                                        *)

notify_permit_counting(pc, permits) ==
    IF pc = "idle" THEN permits ELSE permits + 1

notify_permit(pc, permits) ==
    IF pc = "idle" THEN permits ELSE 1

notify_task_lost(pc) == pc

notify_task(pc) ==
    IF pc = "idle" THEN "woken" ELSE pc

----------------------------------------------------------------------------
(* Initial states: the GameState after construction, or the GameState the  *)
(* match reaches from it after n physics steps, paused, with every task    *)
(* back at its suspension point and the channel drained.                   *)

RECURSIVE after_ticks(_, _)
after_ticks(g, n) ==
    IF n = 0 THEN g
    ELSE IF n = 1 THEN update_ball_position(g).game
    ELSE LET h == after_ticks(g, n \div 2)
         IN  IF h = h THEN after_ticks(h, n - (n \div 2)) ELSE h

StartTicks == {0, 50, 116}

Init ==
    /\ game \in {after_ticks(GameState_default, n) : n \in StartTicks}
    /\ lock = "free"
    /\ pending = << >>
    /\ renderer = << >>
    /\ render_pc = "recv"
    /\ loop_pc = "notified"
    /\ wake_up = 0
    /\ receivers = 0
    /\ sse_pc = 0
    /\ ticks = 0
    /\ requests = 0
    /\ start_kept = FALSE
    /\ after_reset = FALSE
    /\ capacity = QueueCap

----------------------------------------------------------------------------
(* The write guard and the sends made under it. *)

(* the guard is dropped when the function that took it has sent everything *)
(* the loop's guard outlives update_ball_position, the handlers' does not *)
holder_after_kept_by_loop(who, out) ==
    IF who = "loop" THEN "loop" ELSE IF out = << >> THEN "free" ELSE who

holder_after(who, out) == IF out = << >> THEN "free" ELSE who

(* one renderer.send(..).await by the task `who` holding the write guard *)
SendUnderGuard(who) ==
    /\ lock = who
    /\ pending # << >>
    /\ Len(renderer) < capacity
    /\ renderer' = Append(renderer, Head(pending))
    /\ pending' = Tail(pending)
    /\ lock' = holder_after(who, Tail(pending))

----------------------------------------------------------------------------
(* game_loop *)

(* lines 266-269: the condition of the while loop *)
loop_condition_ignores_lost(g, receiver_count) ==
    g.is_running /\ receiver_count > 0

loop_condition(g, receiver_count) ==
    g.is_running /\ ~g.is_lost /\ receiver_count > 0

(* line 258: notified().await *)
LoopNotified ==
    /\ loop_pc = "notified"
    /\ IF wake_up > 0
       THEN wake_up' = wake_up - 1 /\ loop_pc' = "lost_check"
       ELSE wake_up' = wake_up /\ loop_pc' = "idle"
    /\ after_reset' = FALSE
    /\ UNCHANGED <<game, lock, pending, renderer, render_pc, receivers,
                   sse_pc, ticks, requests, start_kept, capacity>>

(* line 258: the woken task resumes *)
LoopResume ==
    /\ loop_pc = "woken"
    /\ loop_pc' = "lost_check"
    /\ UNCHANGED <<game, lock, pending, renderer, render_pc, wake_up,
                   receivers, sse_pc, ticks, requests, start_kept,
                   after_reset, capacity>>

(* lines 259-265 up to the first send *)
LoopLostCheck ==
    /\ loop_pc = "lost_check"
    /\ lock = "free"
    /\ IF game.is_lost
       THEN /\ game' = reset(game)
            /\ pending' = render_all
            /\ lock' = holder_after("loop", render_all)
            /\ loop_pc' = "reset_send"
       ELSE /\ UNCHANGED <<game, pending, lock>>
            /\ loop_pc' = "cond"
    /\ after_reset' = (game.is_lost /\ game.is_running)
    /\ UNCHANGED <<renderer, render_pc, wake_up, receivers, sse_pc, ticks,
                   requests, start_kept, capacity>>

(* lines 263 and 395-424: the sends of render_all and update_ball_position *)
LoopSend ==
    /\ loop_pc \in {"reset_send", "tick_send"}
    /\ SendUnderGuard("loop")
    /\ loop_pc' = IF Tail(pending) # << >> THEN loop_pc
                  ELSE IF loop_pc = "reset_send" THEN "cond" ELSE "sleep"
    /\ UNCHANGED <<game, render_pc, wake_up, receivers, sse_pc, ticks,
                   requests, start_kept, after_reset, capacity>>

(* lines 266-269: the loop condition, under a read guard *)
LoopCond ==
    /\ loop_pc = "cond"
    /\ lock = "free"
    /\ loop_pc' = IF loop_condition(game, receivers) THEN "tick" ELSE "stop"
    /\ UNCHANGED <<game, lock, pending, renderer, render_pc, wake_up,
                   receivers, sse_pc, ticks, requests, start_kept,
                   after_reset, capacity>>

(* lines 270, 383-423: the physics step, under the write guard *)
LoopTick ==
    /\ loop_pc = "tick"
    /\ lock = "free"
    /\ ticks < MaxTicks
    /\ LET r == update_ball_position(game)
       IN  /\ game' = r.game
           /\ pending' = r.out
           /\ lock' = holder_after("loop", r.out)
    /\ loop_pc' = "tick_send"
    /\ ticks' = ticks + 1
    /\ start_kept' = FALSE
    /\ UNCHANGED <<renderer, render_pc, wake_up, receivers, sse_pc, requests,
                   after_reset, capacity>>

(* line 271 *)
LoopSleep ==
    /\ loop_pc = "sleep"
    /\ loop_pc' = "cond"
    /\ UNCHANGED <<game, lock, pending, renderer, render_pc, wake_up,
                   receivers, sse_pc, ticks, requests, start_kept,
                   after_reset, capacity>>

(* line 273 *)
LoopStop ==
    /\ loop_pc = "stop"
    /\ lock = "free"
    /\ game' = [game EXCEPT !.is_running = FALSE]
    /\ loop_pc' = "notified"
    /\ UNCHANGED <<lock, pending, renderer, render_pc, wake_up, receivers,
                   sse_pc, ticks, requests, start_kept, after_reset,
                   capacity>>

----------------------------------------------------------------------------
(* Request handlers.  A handler waiting for the write guard has no state   *)
(* of its own: its input is drawn when it gets the guard.                  *)

(* the inputs drawn in the concurrent specification: the pause key, a bound *)
(* key, an unbound key, and a click on the right half at the top            *)
Keys == {"p", "w", "x"}
ClickXs == {7}
ClickYs == {0}

(* what a handler's result does to the shared state, up to its first send *)
Handle(r) ==
    /\ lock = "free"
    /\ requests < MaxRequests
    /\ requests' = requests + 1
    /\ game' = r.game
    /\ pending' = r.out
    /\ lock' = holder_after("handler", r.out)
    /\ wake_up' = IF r.notify THEN notify_permit(loop_pc, wake_up) ELSE wake_up
    /\ loop_pc' = IF r.notify THEN notify_task(loop_pc) ELSE loop_pc
    /\ start_kept' =
          IF ~game.is_running /\ r.game.is_running
          THEN ~game.is_lost /\ receivers > 0
          ELSE IF game.is_running /\ ~r.game.is_running THEN FALSE
          ELSE start_kept
    /\ after_reset' = (after_reset /\ ~r.game.is_running)
    /\ UNCHANGED <<renderer, render_pc, receivers, sse_pc, ticks, capacity>>

Keypress == \E last_key \in Keys : Handle(keypress(game, last_key))

Click == \E x \in ClickXs, y \in ClickYs : Handle(click(game, x, y))

(* lines 295-308, 318, 334 *)
HandlerSend ==
    /\ SendUnderGuard("handler")
    /\ UNCHANGED <<game, render_pc, loop_pc, wake_up, receivers, sse_pc,
                   ticks, requests, start_kept, after_reset, capacity>>

(* line 341: update_tx.subscribe() *)
Subscribe ==
    /\ receivers < MaxReceivers
    /\ receivers' = receivers + 1
    /\ sse_pc' = sse_pc + 1
    /\ UNCHANGED <<game, lock, pending, renderer, render_pc, loop_pc,
                   wake_up, ticks, requests, start_kept, after_reset,
                   capacity>>

(* line 342 *)
SseSend ==
    /\ sse_pc > 0
    /\ Len(renderer) < capacity
    /\ renderer' = Append(renderer, "Scoreboard")
    /\ sse_pc' = sse_pc - 1
    /\ UNCHANGED <<game, lock, pending, render_pc, loop_pc, wake_up,
                   receivers, ticks, requests, start_kept, after_reset,
                   capacity>>

(* an event stream handed out at line 343 ends; the receiver of a handler  *)
(* still waiting in the send of line 342 stays counted                      *)
Disconnect ==
    /\ receivers > sse_pc
    /\ receivers' = receivers - 1
    /\ start_kept' = (start_kept /\ receivers' > 0)
    /\ UNCHANGED <<game, lock, pending, renderer, render_pc, loop_pc,
                   wake_up, sse_pc, ticks, requests, after_reset, capacity>>

----------------------------------------------------------------------------
(* render *)

(* line 208 *)
RenderRecv ==
    /\ render_pc = "recv"
    /\ renderer # << >>
    /\ render_pc' = Head(renderer)
    /\ renderer' = Tail(renderer)
    /\ UNCHANGED <<game, lock, pending, loop_pc, wake_up, receivers, sse_pc,
                   ticks, requests, start_kept, after_reset, capacity>>

(* lines 209-229: read guard, render, update_tx.send *)
RenderPublish ==
    /\ render_pc # "recv"
    /\ lock = "free"
    /\ render_pc' = "recv"
    /\ UNCHANGED <<game, lock, pending, renderer, loop_pc, wake_up,
                   receivers, sse_pc, ticks, requests, start_kept,
                   after_reset, capacity>>

----------------------------------------------------------------------------
Next ==
    \/ LoopNotified \/ LoopResume \/ LoopLostCheck \/ LoopSend \/ LoopCond
    \/ LoopTick \/ LoopSleep \/ LoopStop
    \/ Keypress \/ Click \/ HandlerSend
    \/ Subscribe \/ SseSend \/ Disconnect
    \/ RenderRecv \/ RenderPublish

Spec == Init /\ [][Next]_vars

(* The scheduling the runtime guarantees: a task that can run is polled,   *)
(* the RwLock and the channel's semaphore are fair (FIFO), so a task that  *)
(* is repeatedly able to take the lock or a slot gets it.  Requests,       *)
(* subscriptions and disconnections are the clients' and are not forced.   *)
Fairness ==
    /\ WF_vars(LoopNotified) /\ WF_vars(LoopResume) /\ WF_vars(LoopSleep)
    /\ SF_vars(LoopLostCheck) /\ SF_vars(LoopCond) /\ SF_vars(LoopTick)
    /\ SF_vars(LoopStop) /\ SF_vars(LoopSend)
    /\ SF_vars(HandlerSend) /\ SF_vars(SseSend)
    /\ WF_vars(RenderRecv) /\ SF_vars(RenderPublish)

FairSpec == Spec /\ Fairness

----------------------------------------------------------------------------
(* Properties of the concurrent system. *)

InTickLoop == loop_pc \in {"cond", "tick", "tick_send", "sleep"}

(* wake-ups the loop has been given and has not yet acted on *)
PendingWakes == wake_up + (IF loop_pc = "woken" THEN 1 ELSE 0)

(* C1: once no receiver is left while game_loop is in its tick loop, and   *)
(* none comes back, the loop runs at most one more physics step, writes    *)
(* is_running = false and is back at notified().  (Stated for ticks below  *)
(* MaxTicks, where the one further physics step is still enabled.)         *)
C1_SelfTermination ==
    (receivers = 0 /\ InTickLoop /\ ticks < MaxTicks)
        ~> ((loop_pc = "notified" /\ ~game.is_running) \/ receivers > 0)

(* C2: no state has a writer blocked on the full channel, holding the      *)
(* write guard, while the render task waits for the read guard.            *)
C2_NoDeadlock ==
    ~(/\ lock # "free"
      /\ pending # << >>
      /\ Len(renderer) = capacity
      /\ render_pc # "recv")

(* C3: every physics step runs on a state with is_running and not is_lost. *)
C3_TickRaceFree ==
    [][LoopTick => (game.is_running /\ ~game.is_lost)]_vars

(* C4: a start action (is_running false -> true by a request, match not    *)
(* lost, a receiver connected throughout, no pause since) is not reverted: *)
(* is_running stays true until the physics step it leads to.               *)
C4_StartNotLost == start_kept => game.is_running

(* C5, as claimed: two wake calls before the loop observes the first give  *)
(* one wake-up, so never more than one wake-up is pending.                 *)
C5_WakesOnce == PendingWakes <= 1

(* C5, amended: a request that starts the match leaves a wake-up pending;  *)
(* notify_one wakes a loop suspended in notified() and otherwise stores a  *)
(* permit, of which the Notify holds at most one, so at most two wake-ups  *)
(* are ever pending: the one delivered to the suspended loop and one       *)
(* stored permit.                                                          *)
C5_WakesCoalesce ==
    [][ /\ wake_up' <= 1
        /\ (requests' # requests /\ ~game.is_running /\ game'.is_running)
              => /\ PendingWakes' >= 1
                 /\ loop_pc = "idle" => (loop_pc' = "woken" /\ wake_up' = wake_up)
                 /\ loop_pc # "idle" => (loop_pc' = loop_pc /\ wake_up' = 1)
      ]_vars

(* two presses of p while the loop was suspended: woken and a permit stored *)
C5_Witness == loop_pc = "woken" /\ wake_up = 1 /\ requests = 2 /\ ~game.is_running

(* C10: game_loop holds no guard of state.game while it sleeps between     *)
(* ticks or waits in notified().                                           *)
C10_NoLockAcrossSleep ==
    loop_pc \in {"notified", "idle", "woken", "sleep"} => lock # "loop"

(* the loop asleep after a physics step whose signals it has all sent *)
C10_Witness == loop_pc = "sleep" /\ ticks > 0 /\ lock = "handler"

----------------------------------------------------------------------------
(* The physics step on its own: one call of update_ball_position by the    *)
(* loop (LoopTick) from GameStates drawn around the walls, the bat edges   *)
(* and the top and bottom of the court.                                    *)

TickBallXs == {20, 25, 30, 500, 970, 975, 980}
TickBallYs == {5, 10, 395, 400, 405, 500, 595, 600, 605, 980, 985}
TickBatPositions == {0, 400, 800}
TickBatHeights == {10, 55, 200}
TickBatScores == {0, 7}

TickBats(d) ==
    {[d EXCEPT !.position = p, !.height = h, !.score = s] :
        p \in TickBatPositions, h \in TickBatHeights, s \in TickBatScores}

TickBalls ==
    {[position |-> <<x, y>>, velocity |-> <<vx, vy>>] :
        x \in TickBallXs, y \in TickBallYs, vx \in {-15, 15}, vy \in {-5, 5}}

TickInit ==
    /\ game \in {[left |-> l, right |-> r, ball |-> b,
                  is_running |-> TRUE, is_lost |-> FALSE] :
                    l \in TickBats(default_left), r \in TickBats(default_right),
                    b \in TickBalls}
    /\ lock = "free"
    /\ pending = << >>
    /\ renderer = << >>
    /\ render_pc = "recv"
    /\ loop_pc = "tick"
    /\ wake_up = 0
    /\ receivers = 1
    /\ sse_pc = 0
    /\ ticks = 0
    /\ requests = 0
    /\ start_kept = FALSE
    /\ after_reset = FALSE
    /\ capacity = QueueCap

TickSpec == TickInit /\ [][LoopTick]_vars

(* the ball's position after the addition of line 384, before any clamp *)
MovedX(g) == (g.ball.position[1] + g.ball.velocity[1]) % 65536
MovedY(g) == (g.ball.position[2] + g.ball.velocity[2]) % 65536
AtLeft(g) == MovedX(g) <= 10
AtRight(g) == MovedX(g) > 10 /\ MovedX(g) >= 990
Bounces(g) == MovedY(g) <= 0 \/ MovedY(g) >= 990
Inside(g, b) == b.position < MovedY(g) /\ MovedY(g) < b.position + b.height
InsideHalfOpen(g, b) == b.position <= MovedY(g) /\ MovedY(g) < b.position + b.height
Shrunk(h) == IF h - (h \div 10) > 10 THEN h - (h \div 10) ELSE 10
Balls(out) == Cardinality({i \in 1..Len(out) : out[i] = "Ball"})

(* C6: a return (ball at the wall, inside the bat) scores 1 for that bat,  *)
(* shrinks it to max(10, h - h/10), clamps x to the wall and negates vx; a *)
(* miss sets is_lost and leaves both bats' score and height unchanged.     *)
C6_Scoring ==
    [][LoopTick =>
        /\ (AtLeft(game) /\ Inside(game, game.left)) =>
              /\ game'.left.score = game.left.score + 1
              /\ game'.left.height = Shrunk(game.left.height)
              /\ game'.ball.position[1] = 10
              /\ game'.ball.velocity[1] = 0 - game.ball.velocity[1]
              /\ game'.right = game.right
              /\ ~game'.is_lost
        /\ (AtRight(game) /\ Inside(game, game.right)) =>
              /\ game'.right.score = game.right.score + 1
              /\ game'.right.height = Shrunk(game.right.height)
              /\ game'.ball.position[1] = 990
              /\ game'.ball.velocity[1] = 0 - game.ball.velocity[1]
              /\ game'.left = game.left
              /\ ~game'.is_lost
        /\ (\/ AtLeft(game) /\ ~Inside(game, game.left)
            \/ AtRight(game) /\ ~Inside(game, game.right)) =>
              /\ game'.is_lost
              /\ game'.left = game.left
              /\ game'.right = game.right
      ]_vars

(* a return at the left wall by a fresh bat: score 1, height 180 *)
C6_Witness ==
    /\ loop_pc = "tick_send"
    /\ game.ball.position[1] = 10 /\ game.ball.velocity[1] = 15
    /\ game.left.score = 1 /\ game.left.height = 180
    /\ pending = <<"BatLeft", "Scoreboard", "Ball">>

(* C7, as claimed: at a wall the tick is a return exactly when             *)
(* position <= ball.y < position + height.                                 *)
C7_HalfOpenSpan ==
    [][LoopTick =>
        /\ AtLeft(game) => (~game'.is_lost <=> InsideHalfOpen(game, game.left))
        /\ AtRight(game) => (~game'.is_lost <=> InsideHalfOpen(game, game.right))
      ]_vars

(* C7, amended: at a wall the tick is a return exactly when                *)
(* position < ball.y < position + height; a ball whose y equals the bat's  *)
(* position is a miss.                                                     *)
C7_OpenSpan ==
    [][LoopTick =>
        /\ AtLeft(game) => (~game'.is_lost <=> Inside(game, game.left))
        /\ AtRight(game) => (~game'.is_lost <=> Inside(game, game.right))
        /\ (~AtLeft(game) /\ ~AtRight(game)) => ~game'.is_lost
      ]_vars

(* the ball reached the left wall level with the top of the bat: a miss *)
C7_Witness ==
    /\ loop_pc = "tick_send"
    /\ game.is_lost
    /\ game.ball.position[1] <= 10
    /\ game.ball.position[2] = game.left.position

(* C8, as claimed: every tick sends Ball exactly once, last; a miss sends  *)
(* BatLeft, BatRight, Scoreboard, Ball (and one more Scoreboard before the *)
(* Ball on a bounce); a tick with no collision sends only Ball.            *)
C8_BallOnce ==
    [][LoopTick =>
        /\ Balls(pending') = 1
        /\ pending'[Len(pending')] = "Ball"
        /\ game'.is_lost =>
              pending' = IF Bounces(game)
                         THEN <<"BatLeft", "BatRight", "Scoreboard", "Scoreboard", "Ball">>
                         ELSE <<"BatLeft", "BatRight", "Scoreboard", "Ball">>
        /\ (~AtLeft(game) /\ ~AtRight(game) /\ ~Bounces(game)) =>
              pending' = <<"Ball">>
      ]_vars

(* C8, amended: every tick sends Ball last; a miss sends the four signals  *)
(* of render_all, then Scoreboard if the ball also bounces, then Ball      *)
(* again, so Ball is sent twice on a miss and once on every other tick; a  *)
(* tick with no collision sends only Ball.                                 *)
C8_Signals ==
    [][LoopTick =>
        /\ pending'[Len(pending')] = "Ball"
        /\ Balls(pending') = IF game'.is_lost THEN 2 ELSE 1
        /\ game'.is_lost =>
              pending' = IF Bounces(game)
                         THEN <<"BatLeft", "BatRight", "Scoreboard", "Ball",
                                "Scoreboard", "Ball">>
                         ELSE <<"BatLeft", "BatRight", "Scoreboard", "Ball", "Ball">>
        /\ (~AtLeft(game) /\ ~AtRight(game) /\ ~Bounces(game)) =>
              pending' = <<"Ball">>
      ]_vars

(* a miss that also bounces off the bottom of the court *)
C8_Witness ==
    /\ loop_pc = "tick_send"
    /\ game.is_lost
    /\ game.ball.position[2] = 990
    /\ pending = <<"BatLeft", "BatRight", "Scoreboard", "Ball", "Scoreboard", "Ball">>

----------------------------------------------------------------------------
(* move_bat on its own: one keypress on a running match, the bats drawn    *)
(* from every corner of 0 <= position <= 1000 - height.                    *)

AllKeys == {"p", "w", "s", "o", "l", "x", ""}
MoveBatHeights == {10, 55, 180, 200}
MoveBatPositions(h) ==
    {0, 1, 49, 50, 51, 400, 949 - h, 950 - h, 951 - h, 999 - h, 1000 - h}

MoveBats(d) ==
    {[d EXCEPT !.position = p, !.height = h] :
        h \in MoveBatHeights, p \in UNION {MoveBatPositions(hh) : hh \in MoveBatHeights}}

MoveInit ==
    /\ game \in {[GameState_default EXCEPT !.left = l, !.right = r,
                                           !.is_running = TRUE] :
                    l \in {b \in MoveBats(default_left) : b.position <= 1000 - b.height},
                    r \in {b \in MoveBats(default_right) : b.position <= 1000 - b.height}}
    /\ lock = "free"
    /\ pending = << >>
    /\ renderer = << >>
    /\ render_pc = "recv"
    /\ loop_pc = "sleep"
    /\ wake_up = 0
    /\ receivers = 1
    /\ sse_pc = 0
    /\ ticks = 0
    /\ requests = 0
    /\ start_kept = FALSE
    /\ after_reset = FALSE
    /\ capacity = QueueCap

KeypressAny == \E last_key \in AllKeys : Handle(keypress(game, last_key))

MoveSpec == MoveInit /\ [][KeypressAny]_vars

MovedUp(b, c) ==
    /\ c.position = (IF b.position - offset > 0 THEN b.position - offset ELSE 0)
    /\ c.position >= 0 /\ c.position <= b.position
MovedDown(b, c) ==
    /\ c.position = (IF b.position + offset < 1000 - b.height
                     THEN b.position + offset ELSE 1000 - b.height)
    /\ c.position <= 1000 - b.height /\ c.position >= b.position

(* C9: from 0 <= position <= 1000 - height, a move up gives                *)
(* max(0, position - 50) and a move down min(1000 - height, position + 50).*)
C9_MoveClamped ==
    [][\A k \in AllKeys : Handle(keypress(game, k)) =>
        /\ k = "w" => MovedUp(game.left, game'.left)
        /\ k = "s" => MovedDown(game.left, game'.left)
        /\ k = "o" => MovedUp(game.right, game'.right)
        /\ k = "l" => MovedDown(game.right, game'.right)
      ]_vars

(* a bat 49 from the top moved up: it stops at 0 *)
C9_Witness ==
    /\ requests = 1
    /\ pending = <<"BatLeft">>
    /\ game.left.position = 0
    /\ game.right.position = 49

----------------------------------------------------------------------------
(* One request, a keypress or a click, on a drawn GameState: every key,    *)
(* clicks on both halves, bats at and around their limits, the match       *)
(* running or not, lost or not, and game_loop where it can be in such a    *)
(* state (suspended in notified() only while the match does not run).      *)

InputBatHeights == {10, 11, 180, 200}
InputBatPositions == {0, 1, 5, 50, 100, 101, 500, 900, 995, 1000}
AllClickXs == {0, 4, 5}
AllClickYs == {-10, 0, 1000, 4990, 5050, 6000, 10000, 20000}

InputBats(d) ==
    {[d EXCEPT !.position = p, !.height = h] :
        p \in InputBatPositions, h \in InputBatHeights}

(* is_running, the place of game_loop, the stored permits *)
InputLoopStates ==
    {<<TRUE, "sleep", 0>>, <<TRUE, "sleep", 1>>, <<FALSE, "sleep", 0>>,
     <<FALSE, "sleep", 1>>, <<FALSE, "idle", 0>>, <<FALSE, "notified", 0>>,
     <<FALSE, "notified", 1>>}

(* one bat takes every drawn value, the other is the default bat or a     *)
(* shrunk bat at its lower limit                                           *)
InputOtherBats(d) == {d, [d EXCEPT !.position = 820, !.height = 180]}

InputBatPairs ==
    (InputBats(default_left) \X InputOtherBats(default_right))
        \cup (InputOtherBats(default_left) \X InputBats(default_right))

InputInit ==
    /\ \E bats \in InputBatPairs, lost \in BOOLEAN, ls \in InputLoopStates :
          /\ game = [GameState_default EXCEPT !.left = bats[1],
                        !.right = bats[2],
                        !.is_running = ls[1], !.is_lost = lost]
          /\ loop_pc = ls[2]
          /\ wake_up = ls[3]
    /\ lock = "free"
    /\ pending = << >>
    /\ renderer = << >>
    /\ render_pc = "recv"
    /\ receivers = 1
    /\ sse_pc = 0
    /\ ticks = 0
    /\ requests = 0
    /\ start_kept = FALSE
    /\ after_reset = FALSE
    /\ capacity = QueueCap

ClickAny == \E x \in AllClickXs, y \in AllClickYs : Handle(click(game, x, y))

InputSpec == InputInit /\ [][KeypressAny \/ ClickAny]_vars

(* the step calls wake_up.notify_one(): a suspended game_loop is woken,    *)
(* otherwise a permit is stored                                             *)
Notified ==
    IF loop_pc = "idle"
    THEN loop_pc' = "woken" /\ wake_up' = wake_up
    ELSE loop_pc' = loop_pc /\ wake_up' = 1

NotNotified == loop_pc' = loop_pc /\ wake_up' = wake_up

SameBats == game'.left = game.left /\ game'.right = game.right

(* C11 as stated: the pause key flips is_running, leaves bats, ball and    *)
(* is_lost alone, sends one Scoreboard, and notifies game_loop exactly     *)
(* when the new is_running is true.                                        *)
C11_WakeOnStart ==
    [][ Handle(keypress(game, "p")) =>
          /\ game'.is_running = ~game.is_running
          /\ SameBats
          /\ game'.ball = game.ball
          /\ game'.is_lost = game.is_lost
          /\ pending' = <<"Scoreboard">>
          /\ IF game'.is_running THEN Notified ELSE NotNotified ]_vars

(* C11 amended: the pause key flips is_running, leaves bats, ball and      *)
(* is_lost alone, sends one Scoreboard, and notifies game_loop on every    *)
(* press, also when the press pauses the match.                            *)
C11_WakeAlways ==
    [][ Handle(keypress(game, "p")) =>
          /\ game'.is_running = ~game.is_running
          /\ SameBats
          /\ game'.ball = game.ball
          /\ game'.is_lost = game.is_lost
          /\ pending' = <<"Scoreboard">>
          /\ Notified ]_vars

(* a press that paused the match, with the permit it left *)
C11_Witness ==
    /\ requests = 1 /\ ~game.is_running /\ pending = <<"Scoreboard">>
    /\ loop_pc = "sleep" /\ wake_up = 1

BoundLeft(g, k) == k \in {g.left.up_key, g.left.down_key}
BoundRight(g, k) == k \in {g.right.up_key, g.right.down_key}

(* C15: a key other than p pressed while the match does not run, and a key *)
(* bound to no bat pressed in any state, change nothing, send nothing and  *)
(* do not notify game_loop; a bat key pressed while the match runs changes *)
(* at most the position of its bat and sends one signal, for that bat.     *)
C15_KeysGated ==
    [][ \A k \in AllKeys : Handle(keypress(game, k)) =>
          /\ (k # "p" /\ (~game.is_running
                            \/ ~(BoundLeft(game, k) \/ BoundRight(game, k)))) =>
                /\ game' = game
                /\ pending' = << >> /\ renderer' = renderer
                /\ NotNotified
          /\ (game.is_running /\ BoundLeft(game, k)) =>
                /\ game' = [game EXCEPT !.left.position = game'.left.position]
                /\ pending' = <<"BatLeft">>
          /\ (game.is_running /\ ~BoundLeft(game, k) /\ BoundRight(game, k)) =>
                /\ game' = [game EXCEPT !.right.position = game'.right.position]
                /\ pending' = <<"BatRight">> ]_vars

(* a key other than p handled while the match does not run *)
C15_Witness ==
    /\ requests = 1 /\ ~game.is_running /\ pending = << >> /\ lock = "free"
    /\ loop_pc = "idle"

(* C16: a click while the match runs takes the left bat if x < 0.5 and the *)
(* right bat otherwise, and changes nothing but that bat's position: by    *)
(* half the bat's height, up (not above 1) if y * 1000 is less than        *)
(* position + height / 2, down (not below 1000) otherwise, so that the new *)
(* position is in 1..1000; it sends one signal, for that bat.  A click     *)
(* while the match does not run moves no bat and sends Scoreboard only.    *)
C16_ClickMoves ==
    [][ \A x \in AllClickXs, y \in AllClickYs : Handle(click(game, x, y)) =>
          IF game.is_running
          THEN LET side == IF x < 5 THEN "left" ELSE "right"
                   b == game[side]
                   c == game'[side]
                   step == b.height \div 2
               IN  /\ game' = [game EXCEPT ![side].position = c.position]
                   /\ c.position =
                         IF y \div 10 < b.position + (b.height \div 2)
                         THEN Max(1, b.position - step)
                         ELSE Min(1000, b.position + step)
                   /\ 1 <= c.position /\ c.position <= 1000
                   /\ pending' = IF x < 5 THEN <<"BatLeft">> ELSE <<"BatRight">>
          ELSE /\ SameBats
               /\ game' = [game EXCEPT !.is_running = TRUE]
               /\ pending' = <<"Scoreboard">> ]_vars

(* a click above the left bat at position 1: the bat stays at 1 *)
C16_Witness ==
    /\ requests = 1 /\ game.is_running /\ pending = <<"BatLeft">>
    /\ game.left.position = 1 /\ game.left.height = 200

----------------------------------------------------------------------------
(* The limits of the bats.  One step of every function that writes a bat,  *)
(* from bats within the limits: a bat of any height the match can reach,   *)
(* at every position near 0, near and beyond 1000 - height, and on the     *)
(* grid of the key moves in between, the other bat being the default one   *)
(* and the ball one step before the wall of the drawn bat.                 *)

(* the heights score_up produces from h *)
RECURSIVE heights_from(_)
heights_from(h) ==
    LET next == score_up([default_left EXCEPT !.height = h]).height
    IN  IF next = h THEN {h} ELSE {h} \cup heights_from(next)

BatHeights == heights_from(default_left.height)

BoundsPositions(h) ==
    {p \in 0..1000 : \/ p <= Max(55, (h \div 2) + 5)
                     \/ p >= 945 - h
                     \/ p % 50 \in {0, 1}}

BoundsBats(d) ==
    UNION {{[d EXCEPT !.position = p, !.height = h] : p \in BoundsPositions(h)} :
              h \in BatHeights}

(* GameStates of a lost match *)
BoundsLostGames ==
    {[after_ticks(GameState_default, 117) EXCEPT !.left.position = p] :
        p \in {0, 600, 1000}}

BoundsGames ==
    {[GameState_default EXCEPT !.left = l,
         !.ball = [position |-> <<25, 500>>, velocity |-> <<-15, 5>>]] :
        l \in BoundsBats(default_left)}
    \cup
    {[GameState_default EXCEPT !.right = r,
         !.ball = [position |-> <<975, 500>>, velocity |-> <<15, 5>>]] :
        r \in BoundsBats(default_right)}

BoundsInit ==
    /\ \/ /\ game \in {[g EXCEPT !.is_running = TRUE] : g \in BoundsGames}
          /\ loop_pc = "tick"
       \/ /\ game \in BoundsLostGames
          /\ loop_pc = "lost_check"
    /\ lock = "free"
    /\ pending = << >>
    /\ renderer = << >>
    /\ render_pc = "recv"
    /\ wake_up = 0
    /\ receivers = 1
    /\ sse_pc = 0
    /\ ticks = 0
    /\ requests = 0
    /\ start_kept = FALSE
    /\ after_reset = FALSE
    /\ capacity = QueueCap

BoundsSpec ==
    BoundsInit /\ [][LoopTick \/ LoopLostCheck \/ KeypressAny \/ ClickAny]_vars

BatInBounds(b) ==
    /\ b.height \in BatHeights
    /\ 10 <= b.height /\ b.height <= 200
    /\ 0 <= b.position /\ b.position <= 1000
    /\ b.position + b.height <= 65535
    /\ 1000 - b.height >= 0

(* C17: both bats have a height from 10 to 200 and a position from 0 to    *)
(* 1000 after any physics step, key move, click or reset made from bats    *)
(* within these limits, the default bats among them; position + height and *)
(* 1000 - height stay within u16.                                          *)
C17_BatBounds == BatInBounds(game.left) /\ BatInBounds(game.right)

(* a click below the right bat has put it at 1000 *)
C17_Witness ==
    /\ requests = 1 /\ pending = <<"BatRight">>
    /\ game.right.position = 1000 /\ game.right.height = 10

----------------------------------------------------------------------------
(* The ball.  From (230, 420) with velocity (15, 5) the ball runs on a     *)
(* grid: y is a multiple of 5; x is 5 or 10 modulo 15 on the way right     *)
(* (230 + 15 k before the first wall, 10 + 15 k after a return at the      *)
(* left) and a multiple of 15 on the way left (990 - 15 k).  One physics   *)
(* step from every ball on this grid, with bats that return some of them   *)
(* and miss the others.                                                    *)

BallOnGrid(b) ==
    LET x == b.position[1]
        y == b.position[2]
        vx == b.velocity[1]
        vy == b.velocity[2]
    IN  /\ vx \in {-15, 15} /\ vy \in {-5, 5}
        /\ 10 <= x /\ x <= 990
        /\ 0 <= y /\ y <= 990 /\ y % 5 = 0
        /\ vx = -15 => x % 15 = 0
        /\ vx = 15 => x % 15 \in {5, 10}
        /\ y = 0 => vy = 5
        /\ y = 990 => vy = -5

GridBalls ==
    {b \in [position : (10..990) \X {5 * n : n \in 0..198},
            velocity : {-15, 15} \X {-5, 5}] : BallOnGrid(b)}

BallBatPositions == {0, 500}

BallInit ==
    /\ \E b \in GridBalls, p \in BallBatPositions :
          game = [GameState_default EXCEPT !.ball = b, !.is_running = TRUE,
                     !.left.position = p, !.right.position = p]
    /\ lock = "free"
    /\ pending = << >>
    /\ renderer = << >>
    /\ render_pc = "recv"
    /\ loop_pc = "tick"
    /\ wake_up = 0
    /\ receivers = 1
    /\ sse_pc = 0
    /\ ticks = 0
    /\ requests = 0
    /\ start_kept = FALSE
    /\ after_reset = FALSE
    /\ capacity = QueueCap

BallSpec == BallInit /\ [][LoopTick]_vars

(* C18: the ball's position is within 0..1000 by 0..990 and its velocity   *)
(* is (+-15, +-5); while the match is not lost the ball is on its grid     *)
(* with x in 10..990, and position + velocity, which the next physics      *)
(* step computes, is not negative on either axis.  The default ball is on  *)
(* the grid and a physics step keeps the ball on it unless it is a miss.   *)
C18_BallInRange ==
    LET b == game.ball
    IN  /\ 0 <= b.position[1] /\ b.position[1] <= 1000
        /\ 0 <= b.position[2] /\ b.position[2] <= 990
        /\ b.velocity[1] \in {-15, 15} /\ b.velocity[2] \in {-5, 5}
        /\ BallOnGrid(default_ball)
        /\ ~game.is_lost =>
              /\ BallOnGrid(b)
              /\ 10 <= b.position[1] /\ b.position[1] <= 990
              /\ b.position[1] + b.velocity[1] >= 0
              /\ b.position[2] + b.velocity[2] >= 0

(* the step from (15, 5) with velocity (-15, -5): both sums are 0 *)
C18_Witness ==
    /\ ticks = 1 /\ game.ball.position = <<0, 0>>
    /\ game.ball.velocity = <<-15, 5>> /\ game.is_lost

----------------------------------------------------------------------------
(* The render channel and the render task. *)

(* the channel changes only by a send at its tail or by the render task    *)
(* taking its head; the render task publishes what it took, once; the      *)
(* signals of one function are sent in the order it emits them             *)
FifoSteps ==
    [][ /\ renderer' # renderer =>
             \/ \E s \in {"BatLeft", "BatRight", "Scoreboard", "Ball"} :
                    renderer' = Append(renderer, s)
             \/ /\ renderer # << >> /\ renderer' = Tail(renderer)
                /\ render_pc = "recv" /\ render_pc' = Head(renderer)
        /\ render_pc' # render_pc =>
             \/ renderer # << >> /\ render_pc' = Head(renderer)
                   /\ renderer' = Tail(renderer)
             \/ render_pc # "recv" /\ render_pc' = "recv"
                   /\ renderer' = renderer
        /\ (pending # << >> /\ pending' # pending) =>
             /\ pending' = Tail(pending)
             /\ renderer' = Append(renderer, Head(pending)) ]_vars

(* C12: the render channel is first-in first-out and one-to-one: signals   *)
(* enter at the tail and leave at the head, in the order their function    *)
(* emitted them, and every signal the render task takes from the channel   *)
(* is published, once.                                                     *)
C12_FifoPublished ==
    /\ FifoSteps
    /\ (render_pc # "recv") ~> (render_pc = "recv")

----------------------------------------------------------------------------
(* The reset at wake-up.  A lost match is reset only when the five signals *)
(* of the miss and the four of the reset pass the render channel, so these *)
(* properties are checked with a channel that holds them, starting one     *)
(* physics step before the miss at the left wall, or just after it with    *)
(* game_loop back at notified().                                           *)

ResetQueueCap == 4

ResetTicks == {116, 117}

ResetInit ==
    /\ game \in {after_ticks(GameState_default, n) : n \in ResetTicks}
    /\ lock = "free"
    /\ pending = << >>
    /\ renderer = << >>
    /\ render_pc = "recv"
    /\ loop_pc = "notified"
    /\ wake_up = 0
    /\ receivers = 0
    /\ sse_pc = 0
    /\ ticks = 0
    /\ requests = 0
    /\ start_kept = FALSE
    /\ after_reset = FALSE
    /\ capacity = ResetQueueCap

ResetSpec == ResetInit /\ [][Next]_vars

(* C13: a woken game_loop first checks is_lost, under the write guard.  If *)
(* it is set, the GameState becomes the default one (is_running and        *)
(* is_lost false, a second reset changes nothing) and BatLeft, BatRight,   *)
(* Scoreboard, Ball are sent, in this order and under the same guard,      *)
(* before the loop condition is evaluated; if it is not set, the step      *)
(* changes nothing and sends nothing.                                      *)
C13_WakeReset ==
    [][ /\ (loop_pc \in {"notified", "woken"} /\ loop_pc' # loop_pc) =>
               loop_pc' \in {"lost_check", "idle", "woken"}
        /\ (LoopLostCheck /\ game.is_lost) =>
               /\ game' = GameState_default
               /\ ~game'.is_running /\ ~game'.is_lost
               /\ reset(game') = game'
               /\ pending' = <<"BatLeft", "BatRight", "Scoreboard", "Ball">>
               /\ renderer' = renderer
               /\ lock' = "loop"
               /\ loop_pc' = "reset_send"
        /\ (LoopLostCheck /\ ~game.is_lost) =>
               /\ game' = game /\ pending' = pending /\ renderer' = renderer
               /\ lock' = lock
               /\ loop_pc' = "cond"
        /\ loop_pc = "reset_send" =>
               /\ lock = "loop" /\ game = GameState_default /\ game' = game
               /\ \E n \in 1..4 : pending = SubSeq(render_all, n, 4)
               /\ loop_pc' \in {"reset_send", "cond"}
               /\ loop_pc' = "cond" => pending = <<"Ball">> /\ pending' = << >>
        /\ LoopCond => pending = << >> ]_vars

(* the reset has been made and nothing of it sent yet *)
C13_Witness ==
    /\ loop_pc = "reset_send" /\ pending = render_all
    /\ game = GameState_default /\ ticks > 0

(* C14: is_lost is set by a physics step only; while it is set no physics  *)
(* step is made, the ball and the bats' scores and heights stay as they    *)
(* are, and the only step that clears it is the reset of game_loop.        *)
C14_Freeze ==
    [][ /\ (~game.is_lost /\ game'.is_lost) => LoopTick
        /\ game.is_lost =>
              /\ ticks' = ticks
              /\ ~game'.is_lost =>
                    LoopLostCheck /\ game' = reset(game)
              /\ game'.is_lost =>
                    /\ game'.ball = game.ball
                    /\ game'.left.score = game.left.score
                    /\ game'.left.height = game.left.height
                    /\ game'.right.score = game.right.score
                    /\ game'.right.height = game.right.height ]_vars

(* a lost match restarted by p, and a bat key pressed before the reset *)
C14_Witness ==
    /\ game.is_lost /\ game.is_running /\ ticks = 0
    /\ game.left.position = 550

(* C20: when game_loop, woken by a start action on a lost match, has made  *)
(* its reset, and no start action has come since, is_running is false and  *)
(* the GameState is the default one, and game_loop is sending the reset's  *)
(* signals, at its loop condition, leaving the loop, or back at            *)
(* notified(): it makes no physics step in this wake cycle.                *)
C20_RestartTakesTwo ==
    after_reset =>
        /\ ~game.is_running
        /\ game = GameState_default
        /\ loop_pc \in {"reset_send", "cond", "stop", "notified"}

(* back at notified() after such a cycle *)
C20_Witness == after_reset /\ loop_pc = "notified" /\ requests = 1

----------------------------------------------------------------------------
(* C19: whenever is_running is set while game_loop is at notified(), about *)
(* to wait, suspended, or woken and not yet resumed, a wake-up is pending: *)
(* a permit is stored or the task has been woken.  A game_loop suspended   *)
(* with no wake-up pending sees is_running false.                          *)
C19_NoStrandedRun ==
    /\ (game.is_running /\ loop_pc \in {"notified", "idle", "woken"}) =>
           PendingWakes >= 1
    /\ (loop_pc = "idle" /\ PendingWakes = 0) => ~game.is_running

(* a start action has woken the suspended game_loop *)
C19_Witness ==
    game.is_running /\ loop_pc = "woken" /\ wake_up = 0 /\ requests = 1

====
